---- MODULE Spec2Model ----
(* State-machine model of the multisig_wallet contract in src/src/lib.rs:   *)
(* the ledger state (owners, last_request_id, requests), the init function  *)
(* and the six receive entrypoints.  Each entrypoint is one atomic action.  *)
EXTENDS Integers, FiniteSets, Sequences, TLC

\* ---------------------------------------------------------------- constants
\* pub const TRANSFER_AGREEMENT_THRESHOLD: usize = 3;
TRANSFER_AGREEMENT_THRESHOLD == 3

\* Width in bits of usize on the wasm32 target the contract is built for.
UsizeBits == 32

\* ------------------------------------------------------------------- bounds
\* Cap on the number of submissions explored (last_request_id is a u128).
MaxRequests == 2

\* Account addresses, contract addresses, amounts and targets used as inputs.
Accounts == {"A", "B", "C", "D"}
Contracts == {"K"}
\* Owner sets offered to contract_init: one of each cardinality 0..4.
OwnerSetInputs == {{}, {"A"}, {"A", "B"}, {"A", "B", "C"}, {"A", "B", "C", "D"}}
Amounts == {10}
Targets == {"T"}

\* ---------------------------------------------------------------- addresses
\* concordium Address: either an account or a contract instance.
AccountAddr(a) == [kind |-> "Account", addr |-> a]
ContractAddr(c) == [kind |-> "Contract", addr |-> c]
NoAddr == [kind |-> "None", addr |-> "none"]
Senders == {AccountAddr(a) : a \in Accounts} \cup {ContractAddr(c) : c \in Contracts}

RequestIds == 1..MaxRequests

VARIABLES
    initialized,      \* TRUE once contract_init returned Ok(state)
    owners,           \* State.owners
    last_request_id,  \* State.last_request_id
    requests,         \* State.requests : id -> TransferRequest
    call,             \* the last entrypoint invocation and what it returned
    transfers,        \* log of host.invoke_transfer invocations
    handedOut,        \* log of the ids returned by submit_transfer_request
    initOwners        \* the InitParams.owners the state was built from

vars == <<initialized, owners, last_request_id, requests, call, transfers,
          handedOut, initOwners>>

ledger == <<owners, last_request_id, requests>>

\* ------------------------------------------------------------ pure helpers
\* i-th bit (i >= 0) of a natural number.
RECURSIVE Bit(_, _)
Bit(x, i) == IF i = 0 THEN x % 2 ELSE Bit(x \div 2, i - 1)

\* `!x == y` on usize: `!` is bitwise NOT, so the comparison holds exactly
\* when x and y differ in every one of the UsizeBits bits.
UsizeNotEq(x, y) == \A i \in 0..(UsizeBits - 1) : Bit(x, i) # Bit(y, i)

\* Address::matches_account inside is_owner: only an account address can
\* match an owner.
is_owner_always(account, os) == TRUE
is_owner_contracts_too(account, os) ==
    account.kind = "Contract" \/ account.addr \in os
is_owner(account, os) ==
    \E owner \in os : account.kind = "Account" /\ account.addr = owner

\* ensure!(owners.len() == TRANSFER_AGREEMENT_THRESHOLD, ...) in contract_init
init_check_at_least(os) == Cardinality(os) >= TRANSFER_AGREEMENT_THRESHOLD
init_check_non_empty(os) == Cardinality(os) >= 1
init_check(os) == Cardinality(os) = TRANSFER_AGREEMENT_THRESHOLD

\* let req_id = host.state().last_request_id + 1;
next_request_id_same(last) == last
next_request_id(last) == last + 1

\* let mut supporters = BTreeSet::new(); supporters.insert(sender_address);
new_supporters_target(sender_address, target_account) == {target_account}
new_supporters(sender_address, target_account) == {sender_address}

\* ensure!(!matching_request.supporters.contains(&sender_address), ...)
support_check_none(sender_address, supporters) == TRUE
support_check(sender_address, supporters) == sender_address \notin supporters

\* ensure!(matching_request.supporters.contains(&sender_address), ...)
retract_check_none(sender_address, supporters) == TRUE
retract_check(sender_address, supporters) == sender_address \in supporters

\* ensure!(!matching_request.supporters.len() == TRANSFER_AGREEMENT_THRESHOLD, ...)
supporters_guard_quorum(len) == len >= TRANSFER_AGREEMENT_THRESHOLD - 1
supporters_guard_equal(len) == len = TRANSFER_AGREEMENT_THRESHOLD
supporters_guard(len) == UsizeNotEq(len, TRANSFER_AGREEMENT_THRESHOLD)

\* impl From<TransferError> for Error
TransferOutcomes == {"Ok", "AmountTooLarge", "MissingAccount"}
from_transfer_error(te) ==
    IF te = "AmountTooLarge" THEN "InvokeTransferInsufficientFunds"
    ELSE IF te = "MissingAccount" THEN "InvokeTransferMissingAccount"
    ELSE "Ok"

\* matching_request.supporters.insert(sender_address);
add_supporter_replace(supporters, sender_address) == {sender_address}
add_supporter(supporters, sender_address) == supporters \cup {sender_address}

\* matching_request.supporters.remove(&sender_address);
remove_supporter_keep(supporters, sender_address) == supporters
remove_supporter(supporters, sender_address) == supporters \ {sender_address}

\* StateMap operations
EmptyMap == [i \in {} |-> 0]
map_insert_only(m, k, v) == [i \in {k} |-> v]
map_insert(m, k, v) == [i \in (DOMAIN m) \cup {k} |-> IF i = k THEN v ELSE m[i]]
map_remove(m, k) == [i \in (DOMAIN m) \ {k} |-> m[i]]

\* requests.entry(request_id).occupied_or(..)?: the entry is mutated in place
\* and stays in the map, whatever its supporter set becomes.
entry_update_drop_empty(m, k, supporters) ==
    IF supporters = {} THEN map_remove(m, k)
    ELSE [m EXCEPT ![k].supporters = supporters]
entry_update(m, k, supporters) == [m EXCEPT ![k].supporters = supporters]

TransferRequest(amount, target, supporters) ==
    [transfer_amount |-> amount, target_account |-> target, supporters |-> supporters]

\* Record of an entrypoint invocation: its name, ctx.sender(), its parameters,
\* the Result it returned (res, and the Ok value in ret_id / ret_req).
Call(op, sender, id, os, amount, target, res, ret_id, ret_req) ==
    [op |-> op, sender |-> sender, id |-> id, owners_arg |-> os,
     amount |-> amount, target |-> target, res |-> res,
     ret_id |-> ret_id, ret_req |-> ret_req, full |-> FALSE]

\* The request addressed by an execute call was in the map with exactly
\* THRESHOLD supporters when the call was made.
fully_supported(request_id) ==
    /\ request_id \in DOMAIN requests
    /\ Cardinality(requests[request_id].supporters) = TRANSFER_AGREEMENT_THRESHOLD

\* --------------------------------------------------------------------- Init
Init ==
    /\ initialized = FALSE
    /\ owners = {}
    /\ last_request_id = 0
    /\ requests = EmptyMap
    /\ call = Call("none", NoAddr, 0, {}, 0, "none", "Ok", 0, {})
    /\ transfers = <<>>
    /\ handedOut = <<>>
    /\ initOwners = {}

\* ------------------------------------------------------------------ actions
\* contract_init
contract_init(os) ==
    /\ ~initialized
    /\ IF init_check(os)
       THEN /\ initialized' = TRUE
            /\ owners' = os
            /\ last_request_id' = 0
            /\ requests' = EmptyMap
            /\ initOwners' = os
            /\ call' = Call("init", NoAddr, 0, os, 0, "none", "Ok", 0, {})
       ELSE /\ UNCHANGED <<initialized, owners, last_request_id, requests, initOwners>>
            /\ call' = Call("init", NoAddr, 0, os, 0, "none", "InsufficientOwners", 0, {})
    /\ UNCHANGED <<transfers, handedOut>>

\* contract_receive_deposit
contract_receive_deposit_owner_only(sender, amount) ==
    /\ initialized
    /\ call' = Call("deposit", sender, 0, {}, amount, "none",
                    IF is_owner(sender, owners) THEN "Ok" ELSE "NotOwner", 0, {})
    /\ UNCHANGED <<initialized, owners, last_request_id, requests, transfers,
                   handedOut, initOwners>>
contract_receive_deposit(sender, amount) ==
    /\ initialized
    /\ call' = Call("deposit", sender, 0, {}, amount, "none", "Ok", 0, {})
    /\ UNCHANGED <<initialized, owners, last_request_id, requests, transfers,
                   handedOut, initOwners>>

\* contract_receive_submit_transfer_request
contract_receive_submit_transfer_request(sender, amount, target) ==
    /\ initialized
    /\ last_request_id < MaxRequests
    /\ Len(handedOut) < MaxRequests
    /\ IF ~is_owner(sender, owners)
       THEN /\ call' = Call("submit", sender, 0, {}, amount, target, "NotOwner", 0, {})
            /\ UNCHANGED <<last_request_id, requests, handedOut>>
       ELSE IF sender.kind = "Contract"
       THEN /\ call' = Call("submit", sender, 0, {}, amount, target, "ContractSender", 0, {})
            /\ UNCHANGED <<last_request_id, requests, handedOut>>
       ELSE LET req_id == next_request_id(last_request_id)
                new_request == TransferRequest(amount, target,
                                               new_supporters(sender.addr, target))
            IN /\ requests' = map_insert(requests, req_id, new_request)
               /\ last_request_id' = req_id
               /\ handedOut' = Append(handedOut, req_id)
               /\ call' = Call("submit", sender, 0, {}, amount, target, "Ok", req_id, {})
    /\ UNCHANGED <<initialized, owners, transfers, initOwners>>

\* contract_receive_support_transfer_request
contract_receive_support_transfer_request(sender, request_id) ==
    /\ initialized
    /\ LET Fail(e) == /\ call' = Call("support", sender, request_id, {}, 0, "none", e, 0, {})
                      /\ UNCHANGED requests
       IN IF ~is_owner(sender, owners) THEN Fail("NotOwner")
          ELSE IF sender.kind = "Contract" THEN Fail("ContractSender")
          ELSE IF request_id \notin DOMAIN requests THEN Fail("RequestNotFound")
          ELSE IF ~support_check(sender.addr, requests[request_id].supporters)
               THEN Fail("RequestAlreadySupported")
          ELSE /\ requests' = entry_update(requests, request_id,
                                         add_supporter(requests[request_id].supporters,
                                                       sender.addr))
               /\ call' = Call("support", sender, request_id, {}, 0, "none", "Ok", 0, {})
    /\ UNCHANGED <<initialized, owners, last_request_id, transfers, handedOut,
                   initOwners>>

\* contract_receive_not_support_transfer_request
contract_receive_not_support_transfer_request(sender, request_id) ==
    /\ initialized
    /\ LET Fail(e) == /\ call' = Call("not_support", sender, request_id, {}, 0, "none", e, 0, {})
                      /\ UNCHANGED requests
       IN IF ~is_owner(sender, owners) THEN Fail("NotOwner")
          ELSE IF sender.kind = "Contract" THEN Fail("ContractSender")
          ELSE IF request_id \notin DOMAIN requests THEN Fail("RequestNotFound")
          ELSE IF ~retract_check(sender.addr, requests[request_id].supporters)
               THEN Fail("RequestAlreadyNotSupported")
          ELSE /\ requests' = entry_update(requests, request_id,
                                         remove_supporter(requests[request_id].supporters,
                                                          sender.addr))
               /\ call' = Call("not_support", sender, request_id, {}, 0, "none", "Ok", 0, {})
    /\ UNCHANGED <<initialized, owners, last_request_id, transfers, handedOut,
                   initOwners>>

\* contract_receive_execute_transfer_request; te is what host.invoke_transfer
\* reports when it is reached.
contract_receive_execute_transfer_request_remove_first(sender, request_id) ==
    /\ initialized
    /\ LET Done(e) == [Call("execute", sender, request_id, {}, 0, "none", e, 0, {})
                         EXCEPT !.full = fully_supported(request_id)]
           Fail(e) == /\ call' = Done(e)
                      /\ UNCHANGED <<requests, transfers>>
       IN IF ~is_owner(sender, owners) THEN Fail("NotOwner")
          ELSE IF request_id \notin DOMAIN requests THEN Fail("RequestNotFound")
          ELSE IF ~supporters_guard(Cardinality(requests[request_id].supporters))
               THEN /\ requests' = map_remove(requests, request_id)
                    /\ call' = Done("RequestNotSupportedByAllOwners")
                    /\ UNCHANGED transfers
          ELSE /\ requests' = map_remove(requests, request_id)
               /\ transfers' = Append(transfers,
                                      [id |-> request_id,
                                       target |-> requests[request_id].target_account,
                                       amount |-> requests[request_id].transfer_amount])
               /\ \E te \in TransferOutcomes :
                     call' = Done(from_transfer_error(te))
    /\ UNCHANGED <<initialized, owners, last_request_id, handedOut, initOwners>>
contract_receive_execute_transfer_request(sender, request_id) ==
    /\ initialized
    /\ LET Done(e) == [Call("execute", sender, request_id, {}, 0, "none", e, 0, {})
                         EXCEPT !.full = fully_supported(request_id)]
           Fail(e) == /\ call' = Done(e)
                      /\ UNCHANGED <<requests, transfers>>
       IN IF ~is_owner(sender, owners) THEN Fail("NotOwner")
          ELSE IF request_id \notin DOMAIN requests THEN Fail("RequestNotFound")
          ELSE IF ~supporters_guard(Cardinality(requests[request_id].supporters))
               THEN Fail("RequestNotSupportedByAllOwners")
          ELSE LET target_account == requests[request_id].target_account
                   transfer_amount == requests[request_id].transfer_amount
               IN /\ requests' = map_remove(requests, request_id)
                  /\ transfers' = Append(transfers,
                                         [id |-> request_id, target |-> target_account,
                                          amount |-> transfer_amount])
                  /\ \E te \in TransferOutcomes :
                        call' = Done(from_transfer_error(te))
    /\ UNCHANGED <<initialized, owners, last_request_id, handedOut, initOwners>>

\* contract_receive_view_transfer_request
contract_receive_view_transfer_request(sender, request_id) ==
    /\ initialized
    /\ LET Ret(e, r) == call' = Call("view", sender, request_id, {}, 0, "none", e, 0, r)
       IN IF ~is_owner(sender, owners) THEN Ret("NotOwner", {})
          ELSE IF request_id \notin DOMAIN requests THEN Ret("RequestNotFound", {})
          ELSE IF ~supporters_guard(Cardinality(requests[request_id].supporters))
               THEN Ret("RequestNotSupportedByAllOwners", {})
          ELSE Ret("Ok", {requests[request_id]})
    /\ UNCHANGED <<initialized, owners, last_request_id, requests, transfers,
                   handedOut, initOwners>>

Next ==
    \/ \E os \in OwnerSetInputs : contract_init(os)
    \/ \E s \in Senders, a \in Amounts : contract_receive_deposit(s, a)
    \/ \E s \in Senders, a \in Amounts, t \in Targets :
          contract_receive_submit_transfer_request(s, a, t)
    \/ \E s \in Senders, i \in RequestIds : contract_receive_support_transfer_request(s, i)
    \/ \E s \in Senders, i \in RequestIds : contract_receive_not_support_transfer_request(s, i)
    \/ \E s \in Senders, i \in RequestIds : contract_receive_execute_transfer_request(s, i)
    \/ \E s \in Senders, i \in RequestIds : contract_receive_view_transfer_request(s, i)

Spec == Init /\ [][Next]_vars

\* ------------------------------------------------------------- properties
\* The sender of a call is an account whose address is in the owner set.
OwnerAccount(sender) == sender.kind = "Account" /\ sender.addr \in owners

PreconditionErrors == {"NotOwner", "RequestNotFound", "RequestNotSupportedByAllOwners"}

\* C1: execute_transfer_request called by an owner on an existing request
\* with exactly THRESHOLD supporters passes its checks (its result is the
\* transfer executor's) and removes the request from the ledger.
C1_ExecuteWithThresholdSucceeds ==
    [][(/\ call'.op = "execute"
        /\ OwnerAccount(call'.sender)
        /\ call'.id \in DOMAIN requests
        /\ Cardinality(requests[call'.id].supporters) = TRANSFER_AGREEMENT_THRESHOLD)
       => (/\ call'.res \notin PreconditionErrors
           /\ call'.id \notin DOMAIN requests')]_vars

\* C2: execute_transfer_request called by an owner on an existing request
\* with fewer than THRESHOLD supporters fails with
\* RequestNotSupportedByAllOwners, invokes no transfer and keeps the request;
\* a transfer is only ever invoked for a request all owners support.
C2_ExecuteBelowThresholdFails ==
    [][/\ (/\ call'.op = "execute"
           /\ OwnerAccount(call'.sender)
           /\ call'.id \in DOMAIN requests
           /\ Cardinality(requests[call'.id].supporters) < TRANSFER_AGREEMENT_THRESHOLD)
          => (/\ call'.res = "RequestNotSupportedByAllOwners"
              /\ transfers' = transfers
              /\ requests' = requests)
       /\ (transfers' # transfers)
          => (/\ call'.id \in DOMAIN requests
              /\ requests[call'.id].supporters = owners)]_vars

C2_Witness ==
    /\ call.op = "execute"
    /\ OwnerAccount(call.sender)
    /\ call.id \in DOMAIN requests
    /\ Cardinality(requests[call.id].supporters) = TRANSFER_AGREEMENT_THRESHOLD - 1
    /\ call.res = "RequestNotSupportedByAllOwners"
    /\ transfers = <<>>

\* C3: the k-th successful submit_transfer_request returns id k, no id is
\* handed out twice, and last_request_id never decreases.
C3_IdsSequential ==
    /\ [](/\ \A k \in 1..Len(handedOut) : handedOut[k] = k
          /\ (call.op = "submit" /\ call.res = "Ok")
             => (call.ret_id = Len(handedOut) /\ call.ret_id = last_request_id))
    /\ [][last_request_id' >= last_request_id]_vars

C3_Witness ==
    /\ Len(handedOut) >= 2
    /\ call.op = "submit"
    /\ call.res = "Ok"
    /\ call.ret_id = 2

\* C4: the transfer is invoked at most once per request id: once an owner
\* has called execute_transfer_request on an existing request with THRESHOLD
\* supporters, a following execute_transfer_request on the same id fails with
\* RequestNotFound and invokes no transfer.
C4_SecondExecuteNotFound ==
    /\ [](\A j, k \in 1..Len(transfers) : transfers[j].id = transfers[k].id => j = k)
    /\ [][(/\ call.op = "execute"
           /\ OwnerAccount(call.sender)
           /\ call.full
           /\ call'.op = "execute"
           /\ OwnerAccount(call'.sender)
           /\ call'.id = call.id)
          => (/\ call'.res = "RequestNotFound"
              /\ transfers' = transfers)]_vars

\* C5: support_transfer_request by an owner who is already a supporter of
\* the existing request fails with RequestAlreadySupported and leaves the
\* ledger as it was.
C5_SupportTwiceRejected ==
    [][(/\ call'.op = "support"
        /\ OwnerAccount(call'.sender)
        /\ call'.id \in DOMAIN requests
        /\ call'.sender.addr \in requests[call'.id].supporters)
       => (/\ call'.res = "RequestAlreadySupported"
           /\ UNCHANGED ledger)]_vars

C5_Witness ==
    /\ call.op = "support"
    /\ call.res = "RequestAlreadySupported"
    /\ OwnerAccount(call.sender)
    /\ call.id \in DOMAIN requests
    /\ call.sender.addr \in requests[call.id].supporters

\* C6: not_support_transfer_request by an owner who is not a supporter of
\* the existing request fails with RequestAlreadyNotSupported and leaves the
\* ledger as it was; on an id that is not in the ledger it fails with
\* RequestNotFound.
C6_RetractWithoutSupportRejected ==
    [][/\ (/\ call'.op = "not_support"
           /\ OwnerAccount(call'.sender)
           /\ call'.id \in DOMAIN requests
           /\ call'.sender.addr \notin requests[call'.id].supporters)
          => (/\ call'.res = "RequestAlreadyNotSupported"
              /\ UNCHANGED ledger)
       /\ (/\ call'.op = "not_support"
           /\ OwnerAccount(call'.sender)
           /\ call'.id \notin DOMAIN requests)
          => (/\ call'.res = "RequestNotFound"
              /\ UNCHANGED ledger)]_vars

C6_Witness ==
    /\ call.op = "not_support"
    /\ call.res = "RequestAlreadyNotSupported"
    /\ OwnerAccount(call.sender)
    /\ call.id \in DOMAIN requests
    /\ call.sender.addr \notin requests[call.id].supporters

\* C7: submit, support, retract, execute and view called by a sender that is
\* not in the owner set fail with NotOwner and leave owners, last_request_id
\* and requests unchanged.
GuardedOps == {"submit", "support", "not_support", "execute", "view"}

C7_NonOwnerRejected ==
    [][(call'.op \in GuardedOps /\ ~OwnerAccount(call'.sender))
       => (call'.res = "NotOwner" /\ UNCHANGED ledger)]_vars

C7_Witness ==
    /\ call.op = "submit"
    /\ call.sender = AccountAddr("D")
    /\ "D" \notin owners
    /\ call.res = "NotOwner"
    /\ requests # EmptyMap

\* C8: contract_init succeeds exactly when the owner set has THRESHOLD
\* members; otherwise it fails with InsufficientOwners and no state exists;
\* on success last_request_id is 0 and the request map is empty.
C8_InitIffThreshold ==
    call.op = "init" =>
        /\ (call.res = "Ok") <=> (Cardinality(call.owners_arg) = TRANSFER_AGREEMENT_THRESHOLD)
        /\ call.res # "Ok" => (call.res = "InsufficientOwners" /\ ~initialized)
        /\ call.res = "Ok" => (/\ initialized
                               /\ owners = call.owners_arg
                               /\ last_request_id = 0
                               /\ requests = EmptyMap)

C8_Witness ==
    /\ call.op = "init"
    /\ call.res = "Ok"
    /\ initialized
    /\ Cardinality(owners) = TRANSFER_AGREEMENT_THRESHOLD

\* C9: the supporters of every request in the ledger are owners, so no
\* request has more than THRESHOLD supporters.
C9_SupportersAreOwners ==
    \A i \in DOMAIN requests :
        /\ requests[i].supporters \subseteq owners
        /\ Cardinality(requests[i].supporters) <= TRANSFER_AGREEMENT_THRESHOLD

C9_Witness ==
    \E i \in DOMAIN requests :
        /\ requests[i].supporters = owners
        /\ Cardinality(requests[i].supporters) = TRANSFER_AGREEMENT_THRESHOLD

\* C10: once initialized, owners is the set given to contract_init, has
\* THRESHOLD members, and no entrypoint changes it.
C10_OwnersFixed ==
    /\ [](initialized => (/\ owners = initOwners
                          /\ Cardinality(owners) = TRANSFER_AGREEMENT_THRESHOLD))
    /\ [][initialized => owners' = owners]_vars

C10_Witness ==
    /\ initialized
    /\ owners = initOwners
    /\ call.op = "not_support"
    /\ call.res = "Ok"
    /\ last_request_id = 2

\* C11: a request stays in the ledger until a successful
\* execute_transfer_request on its id: no other call, and no failed call,
\* removes it, and an id that was handed out and is gone is never back.
C11_RequestStaysUntilExecuted ==
    [][\A i \in RequestIds :
         /\ (i \in DOMAIN requests /\ i \notin DOMAIN requests')
            => (call'.op = "execute" /\ call'.id = i /\ call'.res = "Ok")
         /\ (i <= last_request_id /\ i \notin DOMAIN requests)
            => i \notin DOMAIN requests']_vars

C11_Witness ==
    /\ call.op = "not_support"
    /\ call.res = "Ok"
    /\ call.id \in DOMAIN requests
    /\ requests[call.id].supporters = {}
    /\ last_request_id = 2
    /\ DOMAIN requests = {1, 2}

InvokeErrors == {"InvokeTransferInsufficientFunds", "InvokeTransferMissingAccount"}

\* C12: an execute_transfer_request that an owner makes on an existing
\* request with THRESHOLD supporters can fail only because the transfer
\* executor failed: it then returns InvokeTransferInsufficientFunds or
\* InvokeTransferMissingAccount and the request is gone from the ledger.
C12_FailedTransferRemovesRequest ==
    [][(/\ call'.op = "execute"
        /\ OwnerAccount(call'.sender)
        /\ fully_supported(call'.id)
        /\ call'.res # "Ok")
       => (/\ call'.res \in InvokeErrors
           /\ call'.id \notin DOMAIN requests'
           /\ Len(transfers') = Len(transfers) + 1)]_vars

AccountOps == {"submit", "support", "not_support"}

\* C13 (as claimed): submit, support and retract called by a contract
\* principal return ContractSender and leave the ledger unchanged.
C13_ContractSenderReported ==
    [][(call'.op \in AccountOps /\ call'.sender.kind = "Contract")
       => (call'.res = "ContractSender" /\ UNCHANGED ledger)]_vars

\* C13 (amended): a contract principal never matches an owner, so submit,
\* support and retract called by one return NotOwner, never ContractSender,
\* and leave the ledger unchanged; no contract address is ever a supporter.
C13_ContractSenderIsNotOwner ==
    /\ [][(call'.op \in AccountOps /\ call'.sender.kind = "Contract")
          => (call'.res = "NotOwner" /\ UNCHANGED ledger)]_vars
    /\ [](/\ call.res # "ContractSender"
          /\ \A i \in DOMAIN requests : requests[i].supporters \cap Contracts = {})

C13_Witness ==
    /\ call.op = "support"
    /\ call.sender = ContractAddr("K")
    /\ call.id \in DOMAIN requests
    /\ call.res = "NotOwner"

\* C14: view_transfer_request called by an owner returns a copy of the stored
\* record when the request has THRESHOLD supporters, fails with
\* RequestNotSupportedByAllOwners when it has fewer, and with RequestNotFound
\* when the id is not in the ledger.
C14_ViewReturnsFullySupported ==
    [][(call'.op = "view" /\ OwnerAccount(call'.sender))
       => IF call'.id \notin DOMAIN requests
          THEN call'.res = "RequestNotFound"
          ELSE IF fully_supported(call'.id)
          THEN call'.res = "Ok" /\ call'.ret_req = {requests[call'.id]}
          ELSE call'.res = "RequestNotSupportedByAllOwners"]_vars

\* C15: a failed submit, support, retract or view, and an execute that fails
\* with NotOwner, RequestNotFound or RequestNotSupportedByAllOwners, leaves
\* owners, last_request_id and requests as they were; a failed call changes
\* the ledger only if it is an execute whose transfer failed.
C15_FailedCallsChangeNothing ==
    [][(/\ call'.op \in GuardedOps
        /\ call'.res # "Ok"
        /\ ~(call'.op = "execute" /\ call'.res \in InvokeErrors))
       => UNCHANGED ledger]_vars

C15_Witness ==
    /\ call.op = "not_support"
    /\ OwnerAccount(call.sender)
    /\ call.res = "RequestNotFound"
    /\ requests # EmptyMap

\* C16: a successful submit_transfer_request by owner o adds exactly one
\* request, under the returned id, with supporters {o} and the submitted
\* amount and target, and leaves every other request as it was; a submit by
\* an owner account always succeeds, however many requests are open.
C16_SubmitAddsOneRequest ==
    [][/\ (call'.op = "submit" /\ call'.res = "Ok")
          => (/\ OwnerAccount(call'.sender)
              /\ call'.ret_id \notin DOMAIN requests
              /\ DOMAIN requests' = DOMAIN requests \cup {call'.ret_id}
              /\ requests'[call'.ret_id] =
                     [transfer_amount |-> call'.amount,
                      target_account |-> call'.target,
                      supporters |-> {call'.sender.addr}]
              /\ \A i \in DOMAIN requests : requests'[i] = requests[i])
       /\ (call'.op = "submit" /\ OwnerAccount(call'.sender))
          => call'.res = "Ok"]_vars

C16_Witness ==
    /\ call.op = "submit"
    /\ call.res = "Ok"
    /\ call.ret_id = 2
    /\ DOMAIN requests = {1, 2}
    /\ requests[2].supporters = {call.sender.addr}
    /\ requests[1].supporters # requests[2].supporters

\* C17: a successful support (retract) by owner o on id i changes only the
\* supporter set of request i, to supporters plus o (minus o); amount and
\* target of i, every other request, last_request_id and owners stay.
C17_SupportRetractFrame ==
    [][/\ (call'.op = "support" /\ call'.res = "Ok")
          => (/\ call'.id \in DOMAIN requests
              /\ requests' = [requests EXCEPT ![call'.id].supporters =
                                                  @ \cup {call'.sender.addr}]
              /\ requests' # requests
              /\ UNCHANGED <<owners, last_request_id>>)
       /\ (call'.op = "not_support" /\ call'.res = "Ok")
          => (/\ call'.id \in DOMAIN requests
              /\ requests' = [requests EXCEPT ![call'.id].supporters =
                                                  @ \ {call'.sender.addr}]
              /\ requests' # requests
              /\ UNCHANGED <<owners, last_request_id>>)]_vars

C17_Witness ==
    /\ call.op = "support"
    /\ call.res = "Ok"
    /\ DOMAIN requests = {1, 2}
    /\ Cardinality(requests[call.id].supporters) = 2

\* C18: view_transfer_request and deposit never change owners,
\* last_request_id or requests, and deposit succeeds for every caller and
\* amount.
C18_ViewDepositReadOnly ==
    [][/\ call'.op \in {"view", "deposit"} => UNCHANGED ledger
       /\ call'.op = "deposit" => call'.res = "Ok"]_vars

C18_Witness ==
    /\ call.op = "deposit"
    /\ ~OwnerAccount(call.sender)
    /\ call.res = "Ok"
    /\ requests # EmptyMap

\* C19: with the guard as written, execute and view called by an owner on an
\* existing request return RequestNotSupportedByAllOwners whatever its
\* supporter count; so no transfer is ever invoked and no request is ever
\* removed: the requests in the ledger are exactly ids 1..last_request_id.
C19_GuardNeverPasses ==
    /\ [][(/\ call'.op \in {"execute", "view"}
           /\ OwnerAccount(call'.sender)
           /\ call'.id \in DOMAIN requests)
          => call'.res = "RequestNotSupportedByAllOwners"]_vars
    /\ [](/\ transfers = <<>>
          /\ DOMAIN requests = 1..last_request_id
          /\ \A n \in 0..TRANSFER_AGREEMENT_THRESHOLD : ~supporters_guard(n))
    /\ [][DOMAIN requests \subseteq DOMAIN requests']_vars

C19_Witness ==
    /\ call.op = "execute"
    /\ OwnerAccount(call.sender)
    /\ call.full
    /\ call.res = "RequestNotSupportedByAllOwners"
    /\ call.id \in DOMAIN requests
    /\ requests[call.id].supporters = owners

\* C20: when the only supporter of a request retracts, the request stays in
\* the ledger with no supporters and the same amount and target, and an
\* owner can then support it again.
C20_RetractKeepsRequest ==
    [][/\ (/\ call'.op = "not_support"
           /\ OwnerAccount(call'.sender)
           /\ call'.id \in DOMAIN requests
           /\ requests[call'.id].supporters = {call'.sender.addr})
          => (/\ call'.res = "Ok"
              /\ call'.id \in DOMAIN requests'
              /\ requests'[call'.id] = [requests[call'.id] EXCEPT !.supporters = {}])
       /\ (/\ call'.op = "support"
           /\ OwnerAccount(call'.sender)
           /\ call'.id \in DOMAIN requests
           /\ requests[call'.id].supporters = {})
          => (/\ call'.res = "Ok"
              /\ requests'[call'.id] =
                     [requests[call'.id] EXCEPT !.supporters = {call'.sender.addr}])]_vars

\* Support that made its sender the only supporter: the set was empty before.
C20_Witness ==
    /\ call.op = "support"
    /\ call.res = "Ok"
    /\ call.id \in DOMAIN requests
    /\ requests[call.id].supporters = {call.sender.addr}
    /\ requests[call.id].transfer_amount = 10
    /\ requests[call.id].target_account = "T"

====
